---- MODULE Spec2Model ----
(***************************************************************************)
(* The real-time duplex voice session of kidslingo: class LiveVoiceSession *)
(* of src/services/geminiService.ts, driven by the DrawTab component.      *)
(*                                                                         *)
(* One step of the model is one JavaScript task, run to completion with    *)
(* the microtasks it queues: a call of the session's API, a platform       *)
(* callback, or the resumption of an await that waits for the outside      *)
(* world (getUserMedia, the tool handler, the transport's negotiation).    *)
(* decodeAudioData has no await of its own, so the `await` on it resumes   *)
(* in the same task and is part of the onmessage step.                     *)
(*                                                                         *)
(* Every connect() call is a generation g: it creates its own audio        *)
(* contexts, microphone stream, processor and transport connection.       *)
(* Time is counted in samples of decoded audio; an audio payload is its    *)
(* byte length (two bytes a sample).                                       *)
(***************************************************************************)
EXTENDS Integers, Sequences, FiniteSets, TLC

\* ------------------------------------------------------------ bounds
MaxConnects == 2        \* connect() calls on the session
MaxDisconnects == 2     \* disconnect() calls on the session
MaxClock == 3           \* last value of an audio context's currentTime
MaxSources == 3         \* buffer sources alive at once
MaxMsgs == 3            \* inbound server messages delivered
MaxSends == 1           \* capture callbacks and sendText calls that send
MaxFrames == 2          \* microphone frames delivered to the capture callback
MaxImages == 1          \* sendImage calls
MaxSample == 18         \* largest sample magnitude of a microphone frame, in twelfths
MaxFrameLen == 2        \* samples in a microphone frame

Gens == 1..MaxConnects
SourceIds == 1..MaxSources

None == <<>>
Some(x) == <<x>>

Max(a, b) == IF a >= b THEN a ELSE b

VARIABLES
    \* fields of LiveVoiceSession (0 stands for null, g for generation g's object)
    inputContext, outputContext, session, nextStartTime, currentSources,
    isMuted, cleanup, currentInputTranscription, currentOutputTranscription,
    \* the position of each connect() call
    connectPc,
    \* the platform: audio contexts, microphone streams, processors, transports
    inCtx, outCtx, micStream, processor, transport, clock, sources,
    \* callbacks waiting on a pending session promise, handlers awaited
    thenQueue, toolTasks,
    \* what the observers and the transport have seen
    voiceState, speaking, emitted, sent, closeCalls, faults,
    \* history: messages delivered, fragments scheduled since the clock last moved
    delivered, run, sendOps, disconnects,
    \* history: messages whose audio was scheduled, connect() calls pending at a disconnect()
    played, abandoned,
    \* history: for every buffer source, the place of its fragment in played
    arrival,
    \* history: microphone frames, setListening(true) called, sendImage calls,
    \* handler completions
    frames, listened, imageOps, handled,
    \* the codec: a frame of samples, its 16-bit PCM, the bytes on the wire, the decoded
    \* buffer, and how far the frame has travelled
    inputData, pcm16, uint8, channelData, codecPc

fields == <<inputContext, outputContext, session, nextStartTime, currentSources,
            isMuted, cleanup, currentInputTranscription, currentOutputTranscription>>
platform == <<inCtx, outCtx, micStream, processor, transport, clock, sources>>
pending == <<thenQueue, toolTasks>>
observed == <<voiceState, speaking, emitted, sent, closeCalls, faults>>
history == <<delivered, run, sendOps, disconnects>>
log == <<played, abandoned, arrival>>
audit == <<frames, listened, imageOps, handled>>
codec == <<inputData, pcm16, uint8, channelData, codecPc>>
sessionVars == <<fields, connectPc, platform, pending, observed, history, log, audit>>
vars == <<sessionVars, codec>>

\* An error nothing catches: a rejected promise or an exception out of a callback
Fault(what, call) == [what |-> what, call |-> call]

NoCalls == [inCtx |-> 0, outCtx |-> 0, stream |-> 0, transport |-> 0]

\* A LiveVoiceSession after its construction, before connect()
Constructed ==
    /\ inputContext = 0 /\ outputContext = 0 /\ session = 0
    /\ nextStartTime = 0 /\ currentSources = {}
    /\ isMuted = TRUE /\ cleanup = 0
    /\ currentInputTranscription = <<>> /\ currentOutputTranscription = <<>>
    /\ connectPc = [g \in Gens |-> "idle"]
    /\ inCtx = [g \in Gens |-> "none"] /\ outCtx = [g \in Gens |-> "none"]
    /\ micStream = [g \in Gens |-> "none"] /\ processor = [g \in Gens |-> 0]
    /\ transport = [g \in Gens |-> "none"]
    /\ clock = [g \in Gens |-> 0]
    /\ sources = <<>>
    /\ thenQueue = [g \in Gens |-> <<>>]
    /\ toolTasks = <<>>
    /\ voiceState = "connecting" /\ speaking = "unset"
    /\ emitted = <<>> /\ sent = <<>>
    /\ closeCalls = [g \in Gens |-> NoCalls]
    /\ faults = {}
    /\ delivered = <<>> /\ run = <<>> /\ sendOps = 0 /\ disconnects = 0
    /\ played = <<>> /\ abandoned = {} /\ arrival = <<>>
    /\ frames = <<>> /\ listened = FALSE /\ imageOps = 0 /\ handled = <<>>

Init ==
    /\ Constructed
    /\ inputData = <<>> /\ pcm16 = <<>> /\ uint8 = <<>> /\ channelData = <<>>
    /\ codecPc = "idle"

\* ------------------------------------------------------------ inbound data
Texts == {<<"a">>, <<"b">>}
\* byte lengths of inbound audio payloads: 2 and 4 decode to 1 and 2 samples, 3 is malformed
AudioLens == {2, 3, 4}
ToolCall(i) == [id |-> i, name |-> "draw_kid_image"]
CallLists == {<<>>, <<ToolCall(1), ToolCall(2)>>, <<ToolCall(3)>>}
\* what DrawTab's handler returns: the image was drawn, or drawing it failed
Results == {"drawn", "hiccup"}

\* LiveServerMessage: optional fields are None or Some(value); audio 0 is no inlineData
Message(o, i, tc, a, calls) ==
    [outputTranscription |-> o, inputTranscription |-> i, turnComplete |-> tc,
     audio |-> a, toolCall |-> calls]
Optional(S) == {None} \cup {Some(x) : x \in S}
Messages ==
    {Message(o, i, tc, a, calls) :
        o \in Optional(Texts), i \in Optional(Texts), tc \in BOOLEAN,
        a \in {0} \cup AudioLens, calls \in CallLists}

\* ------------------------------------------------------------ observers (DrawTab)
\* (speaking) => onStateChange(speaking ? 'speaking' : 'listening')
onAiSpeaking(b) == IF b THEN "speaking" ELSE "listening"
\* (err) => onStateChange('error')
onError == "error"

\* ------------------------------------------------------------ the session promise
Outbound == [thenQueue |-> thenQueue, sent |-> sent, transport |-> transport,
             closeCalls |-> closeCalls]

\* A callback of session.then(...) run with the resolved session s of generation g:
\* s.close() starts the closing handshake; a send reaches the transport when the
\* connection is open and is discarded by a closing, closed or broken one.
RunCallback(O, g, cb) ==
    IF cb.kind = "close"
    THEN [O EXCEPT !.closeCalls[g].transport = @ + 1,
                   !.transport[g] = IF @ = "open" THEN "closing" ELSE @]
    ELSE IF O.transport[g] = "open"
         THEN [O EXCEPT !.sent = Append(@, [to |-> g, msg |-> cb, seen |-> Len(delivered)])]
         ELSE O

\* The text turn sendImage's callback adds by calling this.sendText
followUp(cb) == [kind |-> "text", n |-> cb.n]

\* The microtasks of one task, run in order: q is a sequence of <<g, cb>>, a callback cb
\* of the resolved session promise of generation g. The callback of sendImage sends the
\* image and calls this.sendText, which registers the follow-up text on the promise
\* this.session names then: behind the microtasks already queued when that promise is
\* resolved, in its waiting list when it is pending, nowhere when there is none.
RECURSIVE Drain(_, _)
Drain(O, q) ==
    IF q = <<>> THEN O
    ELSE LET g == Head(q)[1]
             cb == Head(q)[2]
             O1 == RunCallback(O, g, cb)
         IN  IF cb.kind # "image" \/ session = 0
             THEN Drain(O1, Tail(q))
             ELSE IF O1.transport[session] = "connecting"
                  THEN Drain([O1 EXCEPT !.thenQueue[session] = Append(@, followUp(cb))],
                             Tail(q))
                  ELSE IF O1.transport[session] \in {"open", "closing", "closed", "broken"}
                       THEN Drain(O1, Append(Tail(q), <<session, followUp(cb)>>))
                       ELSE Drain(O1, Tail(q))

\* this.session.then(cb) on the promise of generation g: the callback waits while the
\* connection is negotiated, runs in this task when the promise is resolved, and never
\* runs when the negotiation failed.
SessionThen(O, g, cb) ==
    IF O.transport[g] = "connecting"
    THEN [O EXCEPT !.thenQueue[g] = Append(@, cb)]
    ELSE IF O.transport[g] \in {"open", "closing", "closed", "broken"}
         THEN Drain(O, <<<<g, cb>>>>)
         ELSE O

SetOutbound(O) ==
    /\ thenQueue' = O.thenQueue
    /\ sent' = O.sent
    /\ transport' = O.transport
    /\ closeCalls' = O.closeCalls

\* ------------------------------------------------------------ Playback Scheduler
Now == IF outputContext = 0 THEN 0 ELSE clock[outputContext]

FreeIds == SourceIds \ DOMAIN sources
NewId == CHOOSE i \in FreeIds : \A j \in FreeIds : i <= j

\* stopAudioOutput() that forgets to clear the set of current sources
stopAudioOutput_keepSet(srcs, table, now) ==
    [currentSources |-> srcs,
     sources |-> [i \in DOMAIN table |->
                    IF i \in srcs THEN [table[i] EXCEPT !.state = "stopped"] ELSE table[i]],
     nextStartTime |-> now,
     speaking |-> FALSE]

\* stopAudioOutput() that resets the cursor to zero instead of the device clock
stopAudioOutput_toZero(srcs, table, now) ==
    [currentSources |-> {},
     sources |-> [i \in DOMAIN table |->
                    IF i \in srcs THEN [table[i] EXCEPT !.state = "stopped"] ELSE table[i]],
     nextStartTime |-> 0,
     speaking |-> FALSE]

\* stopAudioOutput(): stop every current source, clear the set, reset the cursor to
\* outputContext?.currentTime || 0, call onAiSpeaking(false)
stopAudioOutput(srcs, table, now) ==
    [currentSources |-> {},
     sources |-> [i \in DOMAIN table |->
                    IF i \in srcs THEN [table[i] EXCEPT !.state = "stopped"] ELSE table[i]],
     nextStartTime |-> now,
     speaking |-> FALSE]

\* playAudioBuffer(buffer) that starts every buffer at the clock, ignoring the cursor
playAudioBuffer_atClock(cursor, now, srcs, table, c, dur) ==
    [currentSources |-> srcs \cup {NewId},
     sources |-> (NewId :> [ctx |-> c, start |-> now, dur |-> dur, state |-> "playing"])
                    @@ table,
     nextStartTime |-> now + dur,
     speaking |-> TRUE,
     id |-> NewId]

\* playAudioBuffer(buffer) that leaves the cursor at the start of the buffer
playAudioBuffer_noAdvance(cursor, now, srcs, table, c, dur) ==
    [currentSources |-> srcs \cup {NewId},
     sources |-> (NewId :> [ctx |-> c, start |-> Max(cursor, now), dur |-> dur,
                            state |-> "playing"]) @@ table,
     nextStartTime |-> Max(cursor, now),
     speaking |-> TRUE,
     id |-> NewId]

\* playAudioBuffer(buffer) with a live outputContext c whose currentTime is now
playAudioBuffer(cursor, now, srcs, table, c, dur) ==
    LET start == Max(cursor, now)
        id == NewId
    IN  [currentSources |-> srcs \cup {id},
         sources |-> (id :> [ctx |-> c, start |-> start, dur |-> dur, state |-> "playing"])
                        @@ table,
         nextStartTime |-> start + dur,
         speaking |-> TRUE,
         id |-> id]

\* source.onended that signals "stopped speaking" whatever is left in the set
onended_always(srcs, id) ==
    [currentSources |-> srcs \ {id}, signal |-> TRUE]

\* source.onended: delete the source, and signal "stopped speaking" when none is left
onended(srcs, id) ==
    [currentSources |-> srcs \ {id}, signal |-> (srcs \ {id}) = {}]

\* A decode that accepts every byte length
Decodable_always(len) == TRUE

\* decodeAudioData(data): new Int16Array(data.buffer) throws on an odd byte length;
\* otherwise the buffer holds one sample for every two bytes
Decodable(len) == len % 2 = 0
decodeAudioData(len) == len \div 2

\* ------------------------------------------------------------ Transcript Aggregator
Snapshot(i, o, f) == [input |-> i, output |-> o, final |-> f]

\* onmessage, lines 242-248: the transcription fragment of the message
transcription(inBuf, outBuf, msg) ==
    IF msg.outputTranscription # None
    THEN [input |-> inBuf, output |-> outBuf \o msg.outputTranscription[1],
          emits |-> <<Snapshot(inBuf, outBuf \o msg.outputTranscription[1], FALSE)>>]
    ELSE IF msg.inputTranscription # None
         THEN [input |-> inBuf \o msg.inputTranscription[1], output |-> outBuf,
               emits |-> <<Snapshot(inBuf \o msg.inputTranscription[1], outBuf, FALSE)>>]
         ELSE [input |-> inBuf, output |-> outBuf, emits |-> <<>>]

\* The flush that emits the final snapshot and keeps the buffers
onTurnComplete_noReset(inBuf, outBuf, msg) ==
    IF msg.turnComplete
    THEN [input |-> inBuf, output |-> outBuf, emits |-> <<Snapshot(inBuf, outBuf, TRUE)>>]
    ELSE [input |-> inBuf, output |-> outBuf, emits |-> <<>>]

\* The flush that empties the output buffer alone
onTurnComplete_outputOnly(inBuf, outBuf, msg) ==
    IF msg.turnComplete
    THEN [input |-> inBuf, output |-> <<>>, emits |-> <<Snapshot(inBuf, outBuf, TRUE)>>]
    ELSE [input |-> inBuf, output |-> outBuf, emits |-> <<>>]

\* onmessage, lines 250-255: flush on turnComplete
onTurnComplete(inBuf, outBuf, msg) ==
    IF msg.turnComplete
    THEN [input |-> <<>>, output |-> <<>>, emits |-> <<Snapshot(inBuf, outBuf, TRUE)>>]
    ELSE [input |-> inBuf, output |-> outBuf, emits |-> <<>>]

\* ------------------------------------------------------------ session API
\* The number of the next send operation the application or the microphone issues
NextOp == sendOps + imageOps + 1

\* sendText(text): nothing without a session, else session.then(s => s.send(...));
\* the session object is taken to have the low-level send method the callback tests for
sendText(O, sess, n) ==
    IF sess = 0 THEN O ELSE SessionThen(O, sess, [kind |-> "text", n |-> n])

\* sendImage(base64Data): nothing without a session, else session.then(s => {...})
sendImage(O, sess, n) ==
    IF sess = 0 THEN O ELSE SessionThen(O, sess, [kind |-> "image", n |-> n])

\* DrawTab, connect(...).then(() => {...}): runs when connect() resolves, and
\* connect() resolves on both of its paths
connectThen(O, sess) ==
    [voiceState |-> "listening", isMuted |-> FALSE, listened |-> TRUE,
     outbound |-> sendText(O, sess, 0)]

\* connect(), up to `await getUserMedia`
connect(g) ==
    /\ connectPc[g] = "idle"
    /\ \A h \in Gens : h < g => connectPc[h] # "idle"
    /\ inputContext' = g /\ outputContext' = g
    /\ inCtx' = [inCtx EXCEPT ![g] = "running"]
    /\ outCtx' = [outCtx EXCEPT ![g] = "running"]
    /\ connectPc' = [connectPc EXCEPT ![g] = "awaitMic"]
    /\ run' = <<>>
    /\ UNCHANGED <<codec, log, audit, session, nextStartTime, currentSources, isMuted, cleanup,
                   currentInputTranscription, currentOutputTranscription,
                   micStream, processor, transport, clock, sources, pending,
                   observed, delivered, sendOps, disconnects>>

\* connect() after getUserMedia resolved: processor wired, ai.live.connect started
\* (not awaited), this.session and this.cleanup set; then the caller's continuation
getUserMediaResolve(g) ==
    /\ connectPc[g] = "awaitMic"
    /\ connectPc' = [connectPc EXCEPT ![g] = "done"]
    /\ micStream' = [micStream EXCEPT ![g] = "live"]
    /\ processor' = [processor EXCEPT ![g] = inputContext]
    /\ session' = g /\ cleanup' = g
    /\ LET t == connectThen([Outbound EXCEPT !.transport[g] = "connecting"], g)
       IN  /\ SetOutbound(t.outbound)
           /\ voiceState' = t.voiceState
           /\ isMuted' = t.isMuted
           /\ listened' = t.listened
    /\ UNCHANGED <<codec, log, frames, imageOps, handled,
                   inputContext, outputContext, nextStartTime, currentSources,
                   currentInputTranscription, currentOutputTranscription,
                   inCtx, outCtx, clock, sources, toolTasks, speaking, emitted,
                   faults, history>>

\* connect() after getUserMedia rejected: catch calls onError; connect() still
\* resolves, so the caller's continuation runs after it
getUserMediaReject(g) ==
    /\ connectPc[g] = "awaitMic"
    /\ connectPc' = [connectPc EXCEPT ![g] = "done"]
    /\ micStream' = [micStream EXCEPT ![g] = "denied"]
    /\ LET t == connectThen(Outbound, session)
       IN  /\ SetOutbound(t.outbound)
           /\ voiceState' = t.voiceState
           /\ isMuted' = t.isMuted
           /\ listened' = t.listened
    /\ UNCHANGED <<codec, log, frames, imageOps, handled,
                   inputContext, outputContext, session, nextStartTime, currentSources,
                   cleanup, currentInputTranscription, currentOutputTranscription,
                   processor, inCtx, outCtx, clock, sources, toolTasks, speaking,
                   emitted, faults, history>>

Ready == \E g \in Gens : connectPc[g] = "done"

\* setListening(isListening); the callers call it once connect() has resolved.
\* The contexts of the model are never suspended, so resume() has nothing to do.
setListening(isListening) ==
    /\ Ready
    /\ isMuted' = ~isListening
    /\ listened' = (listened \/ isListening)
    /\ IF isListening
       THEN UNCHANGED <<currentSources, sources, nextStartTime, speaking, voiceState, run>>
       ELSE LET r == stopAudioOutput(currentSources, sources, Now)
            IN  /\ currentSources' = r.currentSources
                /\ sources' = r.sources
                /\ nextStartTime' = r.nextStartTime
                /\ speaking' = r.speaking
                /\ voiceState' = onAiSpeaking(r.speaking)
                /\ run' = <<>>
    /\ UNCHANGED <<codec, log, frames, imageOps, handled,
                   inputContext, outputContext, session, cleanup,
                   currentInputTranscription, currentOutputTranscription, connectPc,
                   inCtx, outCtx, micStream, processor, transport, clock, pending,
                   emitted, sent, closeCalls, faults, delivered, sendOps, disconnects>>

\* sendText(text) called by the application
callSendText ==
    /\ sendOps < MaxSends
    /\ sendOps' = sendOps + 1
    /\ SetOutbound(sendText(Outbound, session, NextOp))
    /\ UNCHANGED <<codec, log, audit, fields, connectPc, inCtx, outCtx, micStream, processor, clock, sources,
                   toolTasks, voiceState, speaking, emitted, faults, delivered, run,
                   disconnects>>

\* sendImage(base64Data) called by the application
callSendImage ==
    /\ imageOps < MaxImages
    /\ imageOps' = imageOps + 1
    /\ SetOutbound(sendImage(Outbound, session, NextOp))
    /\ UNCHANGED <<codec, log, frames, listened, handled,
                   fields, connectPc, inCtx, outCtx, micStream, processor, clock, sources,
                   toolTasks, voiceState, speaking, emitted, faults, delivered, run,
                   sendOps, disconnects>>

\* The cleanup closure of generation g: it stops its own stream and closes its own
\* session promise, and closes the contexts the fields name when it runs.
\* Closing a closed AudioContext returns a rejected promise.
Cleanup(g) ==
    /\ processor' = [processor EXCEPT ![g] = 0]
    /\ micStream' = [micStream EXCEPT ![g] = "stopped"]
    /\ inCtx' = [inCtx EXCEPT ![inputContext] = "closed"]
    /\ outCtx' = [outCtx EXCEPT ![outputContext] = "closed"]
    /\ faults' = faults
                 \cup (IF inCtx[inputContext] = "closed" THEN {Fault("close of a closed context", 0)} ELSE {})
                 \cup (IF outCtx[outputContext] = "closed" THEN {Fault("close of a closed context", 0)} ELSE {})
    /\ SetOutbound(SessionThen(
            [Outbound EXCEPT !.closeCalls[g].stream = @ + 1,
                             !.closeCalls[inputContext].inCtx = @ + 1,
                             !.closeCalls[outputContext].outCtx = @ + 1],
            g, [kind |-> "close"]))

\* disconnect(): this.cleanup?.(); this.session = null
disconnect ==
    /\ disconnects < MaxDisconnects
    /\ disconnects' = disconnects + 1
    /\ session' = 0
    /\ abandoned' = abandoned \cup {g \in Gens : connectPc[g] = "awaitMic"}
    /\ IF cleanup = 0
       THEN UNCHANGED <<processor, micStream, inCtx, outCtx, faults,
                        thenQueue, sent, transport, closeCalls>>
       ELSE Cleanup(cleanup)
    /\ UNCHANGED <<codec, played, arrival, audit, inputContext, outputContext, nextStartTime, currentSources, isMuted,
                   cleanup, currentInputTranscription, currentOutputTranscription,
                   connectPc, clock, sources, toolTasks, voiceState, speaking, emitted,
                   delivered, run, sendOps>>

\* ------------------------------------------------------------ platform callbacks
\* The device clock: currentTime of every running output context advances
Tick ==
    /\ \E g \in Gens : outCtx[g] = "running"
    /\ \A g \in Gens : outCtx[g] = "running" => clock[g] < MaxClock
    /\ clock' = [g \in Gens |-> IF outCtx[g] = "running" THEN clock[g] + 1 ELSE clock[g]]
    /\ run' = <<>>
    /\ UNCHANGED <<codec, log, audit, fields, connectPc, inCtx, outCtx, micStream, processor, transport,
                   sources, pending, observed, delivered, sendOps, disconnects>>

StillPlaying(id) ==
    /\ sources[id].state = "playing"
    /\ clock[sources[id].ctx] < sources[id].start + sources[id].dur

\* The ended event of a source: after it played to its end, or after stop()
sourceEnded(id) ==
    /\ id \in DOMAIN sources
    /\ outCtx[sources[id].ctx] = "running"
    /\ ~StillPlaying(id)
    /\ LET r == onended(currentSources, id)
       IN  /\ currentSources' = r.currentSources
           /\ speaking' = IF r.signal THEN FALSE ELSE speaking
           /\ voiceState' = IF r.signal THEN onAiSpeaking(FALSE) ELSE voiceState
    /\ sources' = [j \in DOMAIN sources \ {id} |-> sources[j]]
    /\ arrival' = [j \in DOMAIN sources \ {id} |-> arrival[j]]
    /\ UNCHANGED <<codec, played, abandoned, audit,
                   inputContext, outputContext, session, nextStartTime, isMuted, cleanup,
                   currentInputTranscription, currentOutputTranscription, connectPc,
                   inCtx, outCtx, micStream, processor, transport, clock, pending,
                   emitted, sent, closeCalls, faults, history>>

\* The capture callback that tests the transport handle alone
Discards_handleOnly(muted, sess) == sess = 0

\* onaudioprocess, line 205: if (this.isMuted || !this.session) return
Discards(muted, sess) == muted \/ sess = 0

\* processor.onaudioprocess of generation g: a frame of the microphone is discarded,
\* or encoded and handed to this.session.then(s => s.sendRealtimeInput(...))
onaudioprocess(g) ==
    /\ processor[g] # 0
    /\ inCtx[processor[g]] = "running"
    /\ Len(frames) < MaxFrames
    /\ frames' = Append(frames, [muted |-> isMuted, session |-> session])
    /\ IF Discards(isMuted, session)
       THEN UNCHANGED <<thenQueue, sent, transport, closeCalls, sendOps>>
       ELSE /\ sendOps < MaxSends
            /\ sendOps' = sendOps + 1
            /\ SetOutbound(SessionThen(Outbound, session,
                    [kind |-> "audio", n |-> NextOp, frame |-> Len(frames) + 1]))
    /\ UNCHANGED <<codec, log, listened, imageOps, handled,
                   fields, connectPc, inCtx, outCtx, micStream, processor, clock, sources,
                   toolTasks, voiceState, speaking, emitted, faults, delivered, run,
                   disconnects>>

\* The audio test that also waits for the tool handlers to finish
hasAudioData_whenIdle(msg) == msg.audio # 0 /\ outputContext # 0 /\ toolTasks = <<>>

\* onmessage, line 259: if (audioData && this.outputContext)
hasAudioData(msg) == msg.audio # 0 /\ outputContext # 0

\* callbacks.onmessage of generation g, up to its first await of the tool handler.
\* A rejected decode ends the handler: the statements after the await never run.
onmessage(g, msg) ==
    /\ transport[g] \in {"open", "closing"}
    /\ Len(delivered) < MaxMsgs
    /\ (msg.audio # 0 /\ Decodable(msg.audio)) => FreeIds # {}
    /\ delivered' = Append(delivered, msg)
    /\ LET t1 == transcription(currentInputTranscription, currentOutputTranscription, msg)
           t2 == onTurnComplete(t1.input, t1.output, msg)
           hasAudio == hasAudioData(msg)
           plays == hasAudio /\ Decodable(msg.audio)
           thrown == hasAudio /\ ~Decodable(msg.audio)
           p == playAudioBuffer(nextStartTime, Now, currentSources, sources,
                                outputContext, decodeAudioData(msg.audio))
       IN  /\ currentInputTranscription' = t2.input
           /\ currentOutputTranscription' = t2.output
           /\ emitted' = emitted \o t1.emits \o t2.emits
           /\ IF plays
              THEN /\ currentSources' = p.currentSources
                   /\ sources' = p.sources
                   /\ nextStartTime' = p.nextStartTime
                   /\ speaking' = p.speaking
                   /\ voiceState' = onAiSpeaking(p.speaking)
                   /\ run' = Append(run, [src |-> p.id, len |-> msg.audio,
                                          cursor |-> nextStartTime, now |-> Now])
                   /\ played' = Append(played, Len(delivered) + 1)
                   /\ arrival' = (p.id :> Len(played) + 1) @@ arrival
              ELSE UNCHANGED <<currentSources, sources, nextStartTime, speaking,
                               voiceState, run, played, arrival>>
           /\ faults' = IF thrown THEN faults \cup {Fault("decode failed", 0)} ELSE faults
           /\ toolTasks' = IF ~thrown /\ msg.toolCall # <<>>
                           THEN Append(toolTasks, [calls |-> msg.toolCall, idx |-> 1])
                           ELSE toolTasks
    /\ UNCHANGED <<inputContext, outputContext, session, isMuted, cleanup, connectPc,
                   inCtx, outCtx, micStream, processor, transport, clock, thenQueue, sent,
                   closeCalls, sendOps, disconnects, abandoned, audit, codec>>

RemoveAt(q, k) == SubSeq(q, 1, k - 1) \o SubSeq(q, k + 1, Len(q))

\* The tool response that carries no id
functionResponses_noId(fc, result) ==
    [kind |-> "tool", id |-> 0, name |-> fc.name, result |-> result]

\* onmessage, lines 273-279: the functionResponses of s.sendToolResponse
functionResponses(fc, result) ==
    [kind |-> "tool", id |-> fc.id, name |-> fc.name, result |-> result]

\* onmessage resumed after `await options.onToolCall(...)` resolved: send the response
\* through this.session, then call the handler for the next call of the list
handlerResolve(k, result) ==
    /\ k \in DOMAIN toolTasks
    /\ LET task == toolTasks[k]
           fc == task.calls[task.idx]
       IN  /\ handled' = Append(handled, [id |-> fc.id, result |-> result])
           /\ IF session = 0
              THEN /\ faults' = faults \cup {Fault("this.session is null", fc.id)}
                   /\ toolTasks' = RemoveAt(toolTasks, k)
                   /\ UNCHANGED <<thenQueue, sent, transport, closeCalls>>
              ELSE /\ SetOutbound(SessionThen(Outbound, session,
                                              functionResponses(fc, result)))
                   /\ toolTasks' = IF task.idx < Len(task.calls)
                                   THEN [toolTasks EXCEPT ![k].idx = @ + 1]
                                   ELSE RemoveAt(toolTasks, k)
                   /\ faults' = faults
    /\ UNCHANGED <<codec, log, frames, listened, imageOps,
                   fields, connectPc, inCtx, outCtx, micStream, processor, clock, sources,
                   voiceState, speaking, emitted, history>>

\* onmessage resumed after the handler rejected: the await throws, nothing catches it
handlerReject(k) ==
    /\ k \in DOMAIN toolTasks
    /\ toolTasks' = RemoveAt(toolTasks, k)
    /\ faults' = faults \cup {Fault("handler failed", toolTasks[k].calls[toolTasks[k].idx].id)}
    /\ UNCHANGED <<codec, log, audit, fields, connectPc, platform, thenQueue, voiceState, speaking, emitted,
                   sent, closeCalls, history>>

\* The negotiation of generation g succeeded: the session promise resolves and the
\* callbacks that waited on it run in the order of their registration
transportOpen(g) ==
    /\ transport[g] = "connecting"
    /\ SetOutbound(Drain([Outbound EXCEPT !.transport[g] = "open", !.thenQueue[g] = <<>>],
                         [k \in DOMAIN thenQueue[g] |-> <<g, thenQueue[g][k]>>]))
    /\ UNCHANGED <<codec, log, audit, fields, connectPc, inCtx, outCtx, micStream, processor, clock, sources,
                   toolTasks, voiceState, speaking, emitted, faults, history>>

\* callbacks.onerror: the negotiation failed (the promise never resolves)
transportFail(g) ==
    /\ transport[g] = "connecting"
    /\ transport' = [transport EXCEPT ![g] = "refused"]
    /\ voiceState' = onError
    /\ UNCHANGED <<codec, log, audit, fields, connectPc, inCtx, outCtx, micStream, processor, clock, sources,
                   pending, speaking, emitted, sent, closeCalls, faults, history>>

\* callbacks.onerror: the open connection broke
transportError(g) ==
    /\ transport[g] = "open"
    /\ transport' = [transport EXCEPT ![g] = "broken"]
    /\ voiceState' = onError
    /\ UNCHANGED <<codec, log, audit, fields, connectPc, inCtx, outCtx, micStream, processor, clock, sources,
                   pending, speaking, emitted, sent, closeCalls, faults, history>>

\* callbacks.onclose: the closing handshake ended
transportClosed(g) ==
    /\ transport[g] = "closing"
    /\ transport' = [transport EXCEPT ![g] = "closed"]
    /\ UNCHANGED <<codec, log, audit, fields, connectPc, inCtx, outCtx, micStream, processor, clock, sources,
                   pending, voiceState, speaking, emitted, sent, closeCalls, faults, history>>

\* ------------------------------------------------------------ Audio Codec
\* A sample is a Float32 of 17 fraction bits, written as its numerator over Unit; the
\* products and quotients of the codec are exact in the doubles JavaScript computes in.
Unit == 131072
Min(a, b) == IF a <= b THEN a ELSE b

\* Frames of the microphone: samples every twelfth from -MaxSample/12 to MaxSample/12
SampleStep == 10923
Samples == {k * SampleStep : k \in -MaxSample..MaxSample}
Frames == UNION {[1..n -> Samples] : n \in 1..MaxFrameLen}

\* a * k / Unit for a numerator a >= 0: its whole part and its remainder, the product
\* taken in limbs of 9 and 8 bits to stay inside 32-bit integers
Times(a, k) ==
    LET t == (a % 512) * k
        u == ((a \div 512) * k) + (t \div 512)
    IN  [whole |-> u \div 256, rem |-> ((u % 256) * 512) + (t % 512)]

\* The integer part of s * k, s a clamped sample: what is left of the number when it is
\* stored in an Int16Array, before the wrap
Truncated(s, k) == IF s < 0 THEN -Times(-s, k).whole ELSE Times(s, k).whole

\* An integer stored in an Int16Array: wrapped modulo 2^16 into -32768..32767
ToInt16(n) == LET m == n % 65536 IN IF m >= 32768 THEN m - 65536 ELSE m

\* floatTo16BitPCM(input): s = Math.max(-1, Math.min(1, input[i]));
\* output[i] = s < 0 ? s * 0x8000 : s * 0x7FFF
floatTo16BitPCM(input) ==
    [i \in DOMAIN input |->
        LET s == Max(-Unit, Min(Unit, input[i]))
        IN  ToInt16(IF s < 0 THEN Truncated(s, 32768) ELSE Truncated(s, 32767))]

\* new Uint8Array(pcm16.buffer): two bytes a sample, the low byte first
Uint8Array(pcm) ==
    [j \in 1..(2 * Len(pcm)) |->
        LET u == pcm[(j + 1) \div 2] % 65536
        IN  IF j % 2 = 1 THEN u % 256 ELSE u \div 256]

\* new Int16Array(data.buffer) of an even number of bytes
Int16Array(data) ==
    [i \in 1..(Len(data) \div 2) |-> ToInt16(data[2 * i - 1] + 256 * data[2 * i])]

\* decodeAudioData(data, ctx), sample by sample: channelData[i] = dataInt16[i] / 32768.0,
\* written over Unit
getChannelData(data) ==
    [i \in 1..(Len(data) \div 2) |-> Int16Array(data)[i] * (Unit \div 32768)]

\* A frame of the microphone enters the capture callback
InitCodec ==
    /\ Constructed
    /\ inputData \in Frames
    /\ pcm16 = <<>> /\ uint8 = <<>> /\ channelData = <<>>
    /\ codecPc = "input"

\* onaudioprocess, line 208: const pcm16 = this.floatTo16BitPCM(inputData)
encode ==
    /\ codecPc = "input"
    /\ pcm16' = floatTo16BitPCM(inputData)
    /\ codecPc' = "pcm"
    /\ UNCHANGED <<sessionVars, inputData, uint8, channelData>>

\* onaudioprocess, line 209: const uint8 = new Uint8Array(pcm16.buffer)
pack ==
    /\ codecPc = "pcm"
    /\ uint8' = Uint8Array(pcm16)
    /\ codecPc' = "bytes"
    /\ UNCHANGED <<sessionVars, inputData, pcm16, channelData>>

\* decodeAudioData applied to the bytes of the frame
decode ==
    /\ codecPc = "bytes"
    /\ Decodable(Len(uint8))
    /\ channelData' = getChannelData(uint8)
    /\ codecPc' = "decoded"
    /\ UNCHANGED <<sessionVars, inputData, pcm16, uint8>>

\* ------------------------------------------------------------ specifications
Next ==
    \/ \E g \in Gens : connect(g)
    \/ \E g \in Gens : getUserMediaResolve(g)
    \/ \E g \in Gens : getUserMediaReject(g)
    \/ \E g \in Gens : transportOpen(g)
    \/ \E g \in Gens : transportFail(g)
    \/ \E g \in Gens : transportError(g)
    \/ \E g \in Gens : transportClosed(g)
    \/ \E b \in BOOLEAN : setListening(b)
    \/ callSendText
    \/ callSendImage
    \/ disconnect
    \/ Tick
    \/ \E id \in SourceIds : sourceEnded(id)
    \/ \E g \in Gens : onaudioprocess(g)
    \/ \E g \in Gens, msg \in Messages : onmessage(g, msg)
    \/ \E k \in 1..MaxMsgs, result \in Results : handlerResolve(k, result)
    \/ \E k \in 1..MaxMsgs : handlerReject(k)

Spec == Init /\ [][Next]_vars

\* The Playback Scheduler under one connected session: audio fragments, the device
\* clock, ended events and the mute toggle
AudioMessages == {Message(None, None, FALSE, a, <<>>) : a \in AudioLens}

NextPlayback ==
    \/ connect(1)
    \/ getUserMediaResolve(1)
    \/ transportOpen(1)
    \/ \E b \in BOOLEAN : setListening(b)
    \/ Tick
    \/ \E id \in SourceIds : sourceEnded(id)
    \/ \E msg \in AudioMessages : onmessage(1, msg)

SpecPlayback == Init /\ [][NextPlayback]_vars

\* The Audio Codec on every frame of Frames: encoded, packed, decoded
NextCodec == encode \/ pack \/ decode

SpecCodec == InitCodec /\ [][NextCodec]_vars

\* The Transcript Aggregator under one connected session: messages that carry
\* transcription fragments and turn-completion markers
TranscriptMessages ==
    {Message(o, i, tc, 0, <<>>) : o \in Optional(Texts), i \in Optional(Texts), tc \in BOOLEAN}

NextTranscript ==
    \/ connect(1)
    \/ getUserMediaResolve(1)
    \/ transportOpen(1)
    \/ \E b \in BOOLEAN : setListening(b)
    \/ \E msg \in TranscriptMessages : onmessage(1, msg)

SpecTranscript == Init /\ [][NextTranscript]_vars

\* The Tool-Call Broker under one connected session: tool-call requests with ids the
\* server never repeats, audio fragments, the handler's outcomes, microphone frames
ToolMessages ==
    {Message(None, None, FALSE, a, <<>>) : a \in {2, 3}}
        \cup {Message(None, None, FALSE, 0, calls) : calls \in CallLists \ {<<>>}}
        \cup {Message(None, None, FALSE, 3, <<ToolCall(3)>>)}

CallIds(msgs) == UNION {{msgs[k].toolCall[j].id : j \in DOMAIN msgs[k].toolCall} : k \in DOMAIN msgs}
FreshCalls(msg) == \A j \in DOMAIN msg.toolCall : msg.toolCall[j].id \notin CallIds(delivered)

NextTools ==
    \/ connect(1)
    \/ getUserMediaResolve(1)
    \/ transportOpen(1)
    \/ \E msg \in ToolMessages : FreshCalls(msg) /\ onmessage(1, msg)
    \/ \E k \in 1..MaxMsgs, result \in Results : handlerResolve(k, result)
    \/ \E k \in 1..MaxMsgs : handlerReject(k)
    \/ onaudioprocess(1)

SpecTools == Init /\ [][NextTools]_vars

\* The life cycle of a session on which connect() is called once, as DrawTab and
\* ChatTab do: the microphone's answer, the transport's negotiation and failures,
\* disconnect() calls, the mute toggle, text turns and microphone frames
NextLifecycle ==
    \/ connect(1)
    \/ getUserMediaResolve(1)
    \/ getUserMediaReject(1)
    \/ transportOpen(1)
    \/ transportFail(1)
    \/ transportError(1)
    \/ transportClosed(1)
    \/ \E b \in BOOLEAN : setListening(b)
    \/ callSendText
    \/ onaudioprocess(1)
    \/ disconnect

SpecLifecycle == Init /\ [][NextLifecycle]_vars

\* The teardown of a connected session: audio fragments and tool-call requests that
\* arrive before disconnect() is called, the handler's completion, a text turn, the
\* device clock, ended events, disconnect() and the end of the closing handshake
TeardownMessages ==
    {Message(None, None, FALSE, 2, <<>>), Message(None, None, FALSE, 0, <<ToolCall(3)>>)}

NextTeardown ==
    \/ connect(1)
    \/ getUserMediaResolve(1)
    \/ transportOpen(1)
    \/ transportClosed(1)
    \/ \E msg \in TeardownMessages : disconnects = 0 /\ FreshCalls(msg) /\ onmessage(1, msg)
    \/ \E k \in 1..MaxMsgs, result \in Results : handlerResolve(k, result)
    \/ callSendText
    \/ Tick
    \/ \E id \in SourceIds : sourceEnded(id)
    \/ disconnect

SpecTeardown == Init /\ [][NextTeardown]_vars

\* The outbound path of one session: text turns, an image, microphone frames, issued
\* while the transport is negotiated or after it opened
NextSends ==
    \/ connect(1)
    \/ getUserMediaResolve(1)
    \/ transportOpen(1)
    \/ \E b \in BOOLEAN : setListening(b)
    \/ callSendText
    \/ callSendImage
    \/ onaudioprocess(1)

SpecSends == Init /\ [][NextSends]_vars

\* The transcript buffers among the other events of a session: fragments of either
\* side, turn-completion markers, audio fragments (while the output context is open),
\* tool calls and their handler, the mute toggle, disconnect()
BufferMessages ==
    {Message(Some(<<"a">>), None, FALSE, 0, <<>>),
     Message(None, Some(<<"b">>), FALSE, 0, <<>>),
     Message(None, None, TRUE, 0, <<>>),
     Message(None, None, FALSE, 2, <<>>),
     Message(None, None, FALSE, 0, <<ToolCall(3)>>)}

NextBuffers ==
    \/ connect(1)
    \/ getUserMediaResolve(1)
    \/ transportOpen(1)
    \/ transportClosed(1)
    \/ \E b \in BOOLEAN : setListening(b)
    \/ \E msg \in BufferMessages :
            /\ msg.audio # 0 => disconnects = 0
            /\ FreshCalls(msg)
            /\ onmessage(1, msg)
    \/ \E k \in 1..MaxMsgs, result \in Results : handlerResolve(k, result)
    \/ disconnect

SpecBuffers == Init /\ [][NextBuffers]_vars

\* A session after disconnect(): what was in flight is still delivered: transcription
\* fragments, turn-completion markers and tool-call requests on the closing connection,
\* the handler's completion, the failure of a negotiation
ClosedMessages ==
    {Message(Some(<<"a">>), None, FALSE, 0, <<>>),
     Message(None, None, TRUE, 0, <<>>),
     Message(None, None, FALSE, 0, <<ToolCall(3)>>)}

NextClosed ==
    \/ connect(1)
    \/ getUserMediaResolve(1)
    \/ transportOpen(1)
    \/ transportFail(1)
    \/ transportClosed(1)
    \/ \E msg \in ClosedMessages : FreshCalls(msg) /\ onmessage(1, msg)
    \/ \E k \in 1..MaxMsgs, result \in Results : handlerResolve(k, result)
    \/ disconnect

SpecClosed == Init /\ [][NextClosed]_vars

\* connect() and disconnect() called in any order on one session, connect() also again
\* before the connect() or the session before it has ended
NextReconnect ==
    \/ \E g \in Gens : connect(g)
    \/ \E g \in Gens : getUserMediaResolve(g)
    \/ \E g \in Gens : getUserMediaReject(g)
    \/ \E g \in Gens : transportOpen(g)
    \/ \E g \in Gens : transportClosed(g)
    \/ disconnect

SpecReconnect == Init /\ [][NextReconnect]_vars

\* ------------------------------------------------------------ claims: Playback Scheduler
\* The start the claim gives the k-th fragment of a run of fragments delivered with
\* no clock advance and no stop between them
RECURSIVE C1_Start(_)
C1_Start(k) ==
    IF k = 1 THEN Max(run[1].cursor, run[1].now)
    ELSE C1_Start(k - 1) + run[k - 1].len \div 2

\* C1: N audio fragments delivered with no clock advance and no stop between them are
\* N scheduled entries in arrival order, the first starting at max(nextStartTime, clock)
\* and each next one where the one before ends, and nextStartTime ends at the first
\* start plus the sum of the durations.
C1_Gapless ==
    /\ \A k \in 1..Len(run) :
        /\ run[k].src \in currentSources
        /\ sources[run[k].src].state = "playing"
        /\ sources[run[k].src].start = C1_Start(k)
        /\ sources[run[k].src].dur = run[k].len \div 2
    /\ \A j, k \in 1..Len(run) : j # k => run[j].src # run[k].src
    /\ run # <<>> => nextStartTime = C1_Start(Len(run)) + run[Len(run)].len \div 2

\* Three fragments of one sample each, delivered back to back at clock 0
C1_Witness ==
    /\ Len(run) = 3
    /\ \A k \in 1..3 : run[k].len = 2 /\ sources[run[k].src].start = k - 1
    /\ nextStartTime = 3

\* C2: setListening(false) while entries are active stops every one of them, leaves the
\* active set empty, resets nextStartTime to the device clock and calls
\* onAiSpeaking(false), all within the call.
C2_MuteStopsPlayback ==
    [][(setListening(FALSE) /\ currentSources # {}) =>
            /\ currentSources' = {}
            /\ \A id \in currentSources : sources'[id].state = "stopped"
            /\ nextStartTime' = clock'[outputContext']
            /\ speaking' = FALSE
            /\ voiceState' = "listening"]_vars

\* Muted after the clock moved, with two stopped entries and none active
C2_Witness ==
    /\ isMuted /\ currentSources = {}
    /\ Cardinality({id \in DOMAIN sources : sources[id].state = "stopped"}) = 2
    /\ Now > 0 /\ nextStartTime = Now
    /\ speaking = FALSE

\* ------------------------------------------------------------ claims: Transcript Aggregator
NonFinal(snaps) == SelectSeq(snaps, LAMBDA x : ~x.final)
Finals(snaps) == SelectSeq(snaps, LAMBDA x : x.final)

Fragments(msg) ==
    (IF msg.outputTranscription # None THEN 1 ELSE 0)
    + (IF msg.inputTranscription # None THEN 1 ELSE 0)

RECURSIVE FragmentCount(_)
FragmentCount(msgs) ==
    IF msgs = <<>> THEN 0 ELSE Fragments(Head(msgs)) + FragmentCount(Tail(msgs))

\* The fragments of one side delivered since the last turn-completion marker, joined
RECURSIVE TurnText(_, _)
TurnText(msgs, side) ==
    IF msgs = <<>> \/ msgs[Len(msgs)].turnComplete THEN <<>>
    ELSE TurnText(SubSeq(msgs, 1, Len(msgs) - 1), side)
         \o (IF msgs[Len(msgs)][side] # None THEN msgs[Len(msgs)][side][1] ELSE <<>>)

\* C3: every inbound transcription fragment, input-side or output-side, is appended to
\* its buffer and produces exactly one non-final snapshot, also when one message
\* carries a fragment of each side: none is dropped.
C3_NoFragmentDropped ==
    /\ Len(NonFinal(emitted)) = FragmentCount(delivered)
    /\ currentInputTranscription = TurnText(delivered, "inputTranscription")
    /\ currentOutputTranscription = TurnText(delivered, "outputTranscription")

\* The texts accumulated when snapshot p was emitted, read from the snapshot before it
C4_Before(p) ==
    IF p = 1 \/ emitted[p - 1].final
    THEN [input |-> <<>>, output |-> <<>>]
    ELSE [input |-> emitted[p - 1].input, output |-> emitted[p - 1].output]

C4_Markers == Len(SelectSeq(delivered, LAMBDA m : m.turnComplete))

\* C4: every turn-completion marker emits one final snapshot that holds the text
\* accumulated in the turn, then both buffers are empty, so that a later snapshot
\* holds only fragments that arrived after the marker.
C4_FinalThenReset ==
    /\ Len(Finals(emitted)) = C4_Markers
    /\ \A p \in 1..Len(emitted) :
        IF emitted[p].final
        THEN /\ emitted[p].input = C4_Before(p).input
             /\ emitted[p].output = C4_Before(p).output
        ELSE \E t \in Texts :
                \/ /\ emitted[p].input = C4_Before(p).input \o t
                   /\ emitted[p].output = C4_Before(p).output
                \/ /\ emitted[p].input = C4_Before(p).input
                   /\ emitted[p].output = C4_Before(p).output \o t
    /\ currentInputTranscription = C4_Before(Len(emitted) + 1).input
    /\ currentOutputTranscription = C4_Before(Len(emitted) + 1).output

\* A turn with text on both sides was flushed, and a fragment of the next turn arrived
C4_Witness ==
    \E p \in 2..Len(emitted) :
        /\ emitted[p - 1].final
        /\ emitted[p - 1].input # <<>> /\ emitted[p - 1].output # <<>>
        /\ ~emitted[p].final
        /\ Len(emitted[p].input) + Len(emitted[p].output) = 1

\* ------------------------------------------------------------ claims: Tool-Call Broker
\* A tool-call response for call id reached the transport or waits for its negotiation
Responded(id) ==
    \/ \E k \in DOMAIN sent : sent[k].msg.kind = "tool" /\ sent[k].msg.id = id
    \/ \E g \in Gens : \E k \in DOMAIN thenQueue[g] :
            thenQueue[g][k].kind = "tool" /\ thenQueue[g][k].id = id

\* The handler for call id is running or still to be called by a live onmessage
Awaited(id) ==
    \E t \in DOMAIN toolTasks : \E j \in toolTasks[t].idx..Len(toolTasks[t].calls) :
        toolTasks[t].calls[j].id = id

\* The calls listed after call id in its request
CallsAfter(id) ==
    UNION {{delivered[m].toolCall[j].id :
                j \in {i \in DOMAIN delivered[m].toolCall :
                        \E h \in 1..(i - 1) : delivered[m].toolCall[h].id = id}} :
           m \in DOMAIN delivered}

\* C5: when the tool handler fails for a call, a response for that call is still sent
\* and the remaining calls of the request are still serviced.
C5_FailedHandlerAnswered ==
    \A f \in faults : f.what = "handler failed" =>
        /\ Responded(f.call)
        /\ \A c \in CallsAfter(f.call) : Responded(c) \/ Awaited(c)

\* The index in delivered of the request that carries call id
RequestIndex(id) ==
    CHOOSE m \in DOMAIN delivered : \E j \in DOMAIN delivered[m].toolCall :
        delivered[m].toolCall[j].id = id

Scheduled(q) == \E k \in DOMAIN played : played[k] = q

\* C9: a decodable audio fragment delivered after a tool-call request and before the
\* response of that call is sent has been scheduled for playback by the time the
\* response is sent; and with a handler outstanding the inbound handler and the capture
\* callback still run, the capture callback sending its frame.
C9_AudioNotDelayed ==
    /\ \A r \in DOMAIN sent : sent[r].msg.kind = "tool" =>
          \A q \in 1..sent[r].seen :
              (RequestIndex(sent[r].msg.id) < q /\ delivered[q].audio # 0
                    /\ Decodable(delivered[q].audio)) => Scheduled(q)
    /\ (toolTasks # <<>> /\ transport[1] = "open" /\ Len(delivered) < MaxMsgs
            /\ FreeIds # {})
          => ENABLED (onmessage(1, Message(None, None, FALSE, 2, <<>>))
                        /\ Cardinality(currentSources') = Cardinality(currentSources) + 1)
    /\ (toolTasks # <<>> /\ processor[1] # 0 /\ inCtx[1] = "running" /\ ~isMuted
            /\ session = 1 /\ transport[1] = "open" /\ sendOps < MaxSends
            /\ Len(frames) < MaxFrames)
          => ENABLED (onaudioprocess(1) /\ Len(sent') = Len(sent) + 1)

\* A request, then an audio fragment and a microphone frame, then the response
C9_Witness ==
    \E r \in DOMAIN sent : \E f \in 1..(r - 1) : \E q \in 1..Len(delivered) :
        /\ sent[r].msg.kind = "tool"
        /\ RequestIndex(sent[r].msg.id) < q /\ q <= sent[r].seen
        /\ delivered[q].audio = 2 /\ Scheduled(q)
        /\ sent[f].msg.kind = "audio" /\ sent[f].seen >= RequestIndex(sent[r].msg.id)

\* ------------------------------------------------------------ claims: life cycle
CloseQueued(g) == \E k \in DOMAIN thenQueue[g] : thenQueue[g][k].kind = "close"

\* Nothing that generation g opened is live
Released(g) ==
    /\ micStream[g] # "live"
    /\ inCtx[g] # "running" /\ outCtx[g] # "running"
    /\ transport[g] = "connecting" => CloseQueued(g)
    /\ transport[g] # "open"

\* C6: a disconnect() that follows a disconnect() is a no-op: it raises no error and
\* no resource receives a second close or stop call.
C6_SecondDisconnectNoOp ==
    [][(disconnect /\ session = 0 /\ cleanup # 0) =>
            /\ closeCalls' = closeCalls
            /\ thenQueue' = thenQueue
            /\ faults' = faults]_vars

\* C7: when disconnect() was called while connect() was pending, nothing that the
\* connect() opened is live once it has finished.
C7_AbandonedConnectReleased ==
    \A g \in abandoned : connectPc[g] = "done" => Released(g)

\* C8: after the microphone was denied, and after the transport reported an error in
\* mid-session, everything the session had acquired is released.
C8_ErrorPathsRelease ==
    \A g \in Gens : (micStream[g] = "denied" \/ transport[g] = "broken") => Released(g)

\* C10: the caller sees Listening only once the microphone and the negotiation of the
\* connect() attempt have both succeeded, and sees Error when the attempt has ended
\* with the microphone denied or the negotiation failed.
C10_ListeningOnlyAfterSuccess ==
    /\ voiceState = "listening" =>
          /\ micStream[1] \in {"live", "stopped"}
          /\ transport[1] \in {"open", "closing", "closed", "broken"}
    /\ (micStream[1] = "denied" \/ transport[1] = "refused") => voiceState = "error"

\* ------------------------------------------------------------ claims: session states
\* C11: once the caller has been shown Error, no step of the same session other than a
\* fresh connect() (the end of connect(), a speaking or stopped-speaking signal, a mute
\* toggle) shows it Listening or Speaking.
C11_ErrorIsTerminal ==
    [][(voiceState = "error" /\ ~(\E g \in Gens : connect(g))) =>
            voiceState' \notin {"listening", "speaking"}]_vars

\* ------------------------------------------------------------ claims: Capture Pipeline
\* The media-input message of microphone frame k reached the transport or waits for it
FrameSent(k) ==
    \E j \in DOMAIN sent : sent[j].msg.kind = "audio" /\ sent[j].msg.frame = k
FrameQueued(k) ==
    \E g \in Gens : \E j \in DOMAIN thenQueue[g] :
        thenQueue[g][j].kind = "audio" /\ thenQueue[g][j].frame = k

\* C12: a frame whose capture callback runs while the session is muted or has no
\* transport handle never produces a media-input message, at once or later; the session
\* is muted from construction, so nothing captured is sent before the first
\* setListening(true).
C12_MutedFramesDiscarded ==
    /\ \A k \in DOMAIN frames :
          (frames[k].muted \/ frames[k].session = 0) => ~FrameSent(k) /\ ~FrameQueued(k)
    /\ ~listened => isMuted /\ \A k \in DOMAIN frames : ~FrameSent(k) /\ ~FrameQueued(k)

\* A frame captured while muted was discarded, and a frame captured after the unmute
\* that followed reached the transport
C12_Witness ==
    \E k \in DOMAIN frames : \E j \in DOMAIN frames :
        /\ k < j
        /\ frames[k].muted /\ ~FrameSent(k) /\ ~FrameQueued(k)
        /\ ~frames[j].muted /\ FrameSent(j)

\* C13: the Capture Pipeline keeps no backlog: a frame captured while unmuted and while
\* the transport is still being negotiated is not kept to be sent once it opens.
C13_NoBacklog ==
    \A k \in DOMAIN frames : ~FrameQueued(k)

\* ------------------------------------------------------------ claims: playback cursor
\* C14: nextStartTime changes only when playAudioBuffer moves it (the step that adds to
\* played), never backwards, or
\* when an explicit stop resets it to the device clock and in the same step empties the
\* active set; it never decreases while an entry remains in the active set.
C14_CursorMonotone ==
    [][/\ played' # played => nextStartTime' >= nextStartTime
       /\ nextStartTime' # nextStartTime =>
              \/ played' # played
              \/ /\ setListening(FALSE)
                 /\ nextStartTime' = clock'[outputContext']
                 /\ currentSources' = {}
       /\ nextStartTime' < nextStartTime => currentSources' = {}]_vars

\* A stop pulled the cursor back to the clock: the fragment scheduled after it starts
\* before the end that the cancelled fragment had been given
C14_Witness ==
    \E c \in DOMAIN sources : \E q \in currentSources :
        /\ sources[c].state = "stopped" /\ c \notin currentSources
        /\ sources[q].state = "playing"
        /\ sources[q].start >= 1
        /\ sources[q].start < sources[c].start + sources[c].dur
        /\ nextStartTime = sources[q].start + sources[q].dur

\* ------------------------------------------------------------ claims: tool responses
ToolResponses == SelectSeq(sent, LAMBDA e : e.msg.kind = "tool")

\* The call with this id, as the server sent it
RequestedCall(id) ==
    LET m == RequestIndex(id)
    IN  delivered[m].toolCall[CHOOSE j \in DOMAIN delivered[m].toolCall :
                                    delivered[m].toolCall[j].id = id]

\* C15: every call whose handler completes gets exactly one tool-call response, with the
\* id and name of the call and the handler's result, and the responses to the calls of
\* one request are sent in the order of its list.
C15_OneResponsePerCall ==
    /\ Len(ToolResponses) = Len(handled)
    /\ \A k \in DOMAIN handled :
          /\ k <= Len(ToolResponses)
          /\ ToolResponses[k].msg = [kind |-> "tool", id |-> handled[k].id,
                                     name |-> RequestedCall(handled[k].id).name,
                                     result |-> handled[k].result]
    /\ \A j, k \in DOMAIN handled : j # k => handled[j].id # handled[k].id
    /\ \A k \in DOMAIN handled : \A c \in CallsAfter(handled[k].id) :
          \A j \in DOMAIN handled : handled[j].id = c => k < j

\* Both calls of a request were answered in list order, with different results
C15_Witness ==
    \E j, k \in DOMAIN ToolResponses :
        /\ j < k
        /\ ToolResponses[j].msg.id = 1 /\ ToolResponses[k].msg.id = 2
        /\ ToolResponses[j].msg.result # ToolResponses[k].msg.result

\* The handler was called for call id and failed
Failed(id) == \E f \in faults : f.what = "handler failed" /\ f.call = id

\* C16: a malformed inbound audio fragment is contained: no exception leaves the inbound
\* handler, and the tool calls of the same message are still serviced.
C16_MalformedContained ==
    \A q \in DOMAIN delivered :
        (delivered[q].audio # 0 /\ ~Decodable(delivered[q].audio)) =>
            /\ Fault("decode failed", 0) \notin faults
            /\ \A j \in DOMAIN delivered[q].toolCall :
                  LET id == delivered[q].toolCall[j].id
                  IN  Responded(id) \/ Awaited(id) \/ Failed(id)

\* ------------------------------------------------------------ claims: teardown
\* C17: disconnect() stops playback: every entry of the active set is cancelled, the set
\* is empty afterwards and onAiSpeaking(false) is signalled.
C17_DisconnectStopsPlayback ==
    [][(disconnect /\ currentSources # {}) =>
            /\ currentSources' = {}
            /\ \A id \in currentSources : sources'[id].state = "stopped"
            /\ speaking' = FALSE]_vars

\* A send registered on the session promise of generation g was still waiting for the
\* transport when disconnect() registered the close
WaitingAtDisconnect(g) ==
    \E i, j \in DOMAIN thenQueue[g] :
        i < j /\ thenQueue[g][i].kind # "close" /\ thenQueue[g][j].kind = "close"

\* C18: a send that is outstanding when disconnect() is called (a tool handler still
\* running, a send that waits for the transport handle) completes as a no-op: it raises
\* no error and sends nothing.
C18_OutstandingSendsNoOp ==
    [][/\ \A f \in faults' \ faults : f.what # "this.session is null"
       /\ \A g \in Gens : (transportOpen(g) /\ WaitingAtDisconnect(g)) => sent' = sent]_vars

\* C19: whatever the order of the connect() and disconnect() calls, at most one transport
\* connection the session opened is live at a time, and so for the microphone stream and
\* for each of the two audio contexts.
C19_OneLiveHandle ==
    /\ Cardinality({g \in Gens : transport[g] = "open"}) <= 1
    /\ Cardinality({g \in Gens : micStream[g] = "live"}) <= 1
    /\ Cardinality({g \in Gens : inCtx[g] = "running"}) <= 1
    /\ Cardinality({g \in Gens : outCtx[g] = "running"}) <= 1

\* ------------------------------------------------------------ claims: outbound order
\* The messages of send operations (text turns, images with their follow-up turn,
\* microphone chunks) that reached the transport of generation g, in order
Arrived(g) ==
    SelectSeq(sent, LAMBDA e : e.to = g /\ e.msg.kind \in {"text", "image", "audio"})

\* C20: outbound messages reach the transport in the order in which the operations that
\* produce them were invoked, also when they were issued during the negotiation: no
\* message overtakes a message of an operation invoked before its own.
C20_SendOrderPreserved ==
    \A g \in Gens : \A j, k \in DOMAIN Arrived(g) :
        j < k => Arrived(g)[j].msg.n <= Arrived(g)[k].msg.n

\* ------------------------------------------------------------ claims: Speaking flag
\* C21: after every step the last value signalled through onAiSpeaking is true exactly
\* when the active playback set is not empty: a fragment scheduled, an entry ended, an
\* explicit stop, the late ended event of a cancelled entry all keep it so. The observer
\* shows the last value as 'speaking' or 'listening'.
C21_SpeakingIffActive ==
    (voiceState = "speaking") <=> (currentSources # {})

\* The first fragment was cancelled by a stop and its ended event was delivered while
\* the second fragment, scheduled after the stop, is still in the active set: at clock 0
\* no fragment can have played to its end
C21_Witness ==
    /\ Len(played) = 2
    /\ Now = 0
    /\ Cardinality(DOMAIN sources) = 1
    /\ currentSources = DOMAIN sources
    /\ voiceState = "speaking"

\* ------------------------------------------------------------ claims: Audio Codec
Abs(n) == IF n < 0 THEN -n ELSE n

\* C22: for a frame whose samples lie in [-1, 1], decoding its encoding gives a frame of
\* the same length in which every sample is within 1/32768 of the original.
C22_RoundTripBound ==
    (codecPc = "decoded" /\ \A i \in DOMAIN inputData : Abs(inputData[i]) <= Unit) =>
        /\ Len(channelData) = Len(inputData)
        /\ \A i \in DOMAIN inputData :
              Abs(inputData[i] - channelData[i]) <= Unit \div 32768

\* Math.round(s * k) for a clamped sample s: the nearest integer, a half going up
Rounded(s, k) ==
    IF s < 0
    THEN LET p == Times(-s, k) IN IF 2 * p.rem > Unit THEN -(p.whole + 1) ELSE -p.whole
    ELSE LET p == Times(s, k) IN IF 2 * p.rem >= Unit THEN p.whole + 1 ELSE p.whole

\* C24: encode maps every sample s, also outside [-1, 1], to
\* round(clamp(s, -1, 1) * (s < 0 ? 32768 : 32767)), rounded to the nearest integer and
\* not truncated, and the result lies in -32768..32767.
C24_EncodeRounds ==
    codecPc \in {"pcm", "bytes", "decoded"} =>
        \A i \in DOMAIN inputData :
            LET s == Max(-Unit, Min(Unit, inputData[i]))
            IN  /\ pcm16[i] = Rounded(s, IF s < 0 THEN 32768 ELSE 32767)
                /\ pcm16[i] \in -32768..32767

\* C23: an inbound chunk whose byte length is odd makes decode fail with an error, and
\* no frame, whole or partial, is made of it and scheduled for playback.
C23_OddChunkRejected ==
    \A q \in DOMAIN delivered :
        (delivered[q].audio # 0 /\ delivered[q].audio % 2 = 1) =>
            /\ ~Scheduled(q)
            /\ Fault("decode failed", 0) \in faults

\* A chunk of three bytes arrived between two well-formed chunks, which were scheduled
C23_Witness ==
    /\ Len(delivered) = 3
    /\ delivered[1].audio = 2 /\ delivered[2].audio = 3 /\ delivered[3].audio = 4
    /\ played = <<1, 3>>

\* ------------------------------------------------------------ claims: transcript buffers
\* C25: in every step each transcript buffer stays as it is, or grows by a fragment
\* appended at its end, or is emptied together with the other buffer by a message that
\* carries a turn-completion marker; mute, unmute, audio fragments, tool calls and
\* disconnect() change neither.
C25_BuffersAppendOnly ==
    [][LET i == currentInputTranscription
           o == currentOutputTranscription
       IN  \/ currentInputTranscription' = i /\ currentOutputTranscription' = o
           \/ /\ Len(delivered') = Len(delivered) + 1
              /\ IF delivered'[Len(delivered')].turnComplete
                 THEN currentInputTranscription' = <<>> /\ currentOutputTranscription' = <<>>
                 ELSE \E t \in Texts :
                        \/ currentInputTranscription' = i \o t
                              /\ currentOutputTranscription' = o
                        \/ currentInputTranscription' = i
                              /\ currentOutputTranscription' = o \o t]_vars

\* Both buffers still hold their text after an audio fragment, a mute and disconnect()
C25_Witness ==
    /\ currentInputTranscription # <<>> /\ currentOutputTranscription # <<>>
    /\ \E q \in DOMAIN delivered : delivered[q].audio # 0
    /\ listened /\ isMuted
    /\ disconnects > 0

\* ------------------------------------------------------------ claims: playback windows
\* C26: whatever the interleaving of fragments, clock advances, natural ends and stops,
\* the entries of the active set start in arrival order and their windows do not
\* overlap: an entry starts no earlier than the entry scheduled before it ends.
C26_WindowsDisjoint ==
    \A a, b \in currentSources :
        arrival[a] < arrival[b] =>
            sources[a].start + sources[a].dur <= sources[b].start

\* Two active entries with a gap between them: the clock had passed the cursor when
\* the second fragment arrived, and the first entry's ended event is still to come
C26_Witness ==
    \E a, b \in currentSources :
        /\ arrival[a] < arrival[b]
        /\ sources[a].start + sources[a].dur < sources[b].start

\* ------------------------------------------------------------ claims: mute
AudioSent == SelectSeq(sent, LAMBDA e : e.msg.kind = "audio")

\* C27: from the return of setListening(false) to the next setListening(true) no
\* media-input message reaches the transport, nor one of a frame that was captured while
\* unmuted and whose send still waited for the transport handle.
C27_NoAudioWhileMuted ==
    [][(isMuted /\ isMuted') => Len(AudioSent') = Len(AudioSent)]_vars

\* C28: while the session is muted the active playback set stays empty: an audio
\* fragment that arrives after setListening(false) is not scheduled and signals no
\* "agent speaking".
C28_NoPlaybackWhileMuted ==
    isMuted => currentSources = {} /\ voiceState # "speaking"

\* ------------------------------------------------------------ claims: Closed
\* C29: once disconnect() has returned on a connected session, the session calls none
\* of its observers again (onTranscription, onAiSpeaking, onError, the tool handler) and
\* schedules no playback, whatever is delivered afterwards.
C29_ClosedIsTerminal ==
    [][(session = 0 /\ cleanup # 0) =>
            /\ emitted' = emitted
            /\ voiceState' = voiceState
            /\ Len(toolTasks') <= Len(toolTasks)
            /\ played' = played]_vars

====
